---- MODULE Spec2Model ----
(***************************************************************************)
(* A model of qip: the installation orchestrator (qip.install and          *)
(* qip.copy_to_destination, source/qip/__init__.py), the installer it      *)
(* calls (qip.package.install, source/qip/package.py) and the variant      *)
(* reconciler (qip.definition._update_variants and _compare_variants,      *)
(* source/qip/definition.py).                                              *)
(*                                                                         *)
(* Two specifications share the module: Spec runs install() once on        *)
(* arguments drawn by Init, SpecVariants applies _update_variants to a     *)
(* variant list.                                                           *)
(***************************************************************************)
EXTENDS Integers, Sequences, FiniteSets, TLC

(***************************************************************************)
(* Bounds of the model.                                                    *)
(***************************************************************************)
\* Longest list of requests the caller passes to install().
MaxRequests == 2

\* Most _update_variants calls applied to one variant list.
MaxCalls == 3

\* Calls of _update_variants on a stored list.
MaxReconciles == 2

(***************************************************************************)
(* The world the installer works in: request strings, the package each     *)
(* resolves to, and each package's direct dependencies.                    *)
(***************************************************************************)
None == "None"

\* The overwrite policy is True, False or None.
True == "True"
False == "False"
Bool(b) == IF b THEN True ELSE False

\* Request strings a caller may pass; "foo" and "foo==1" name one package.
RequestStrings == {"foo", "foo==1", "bar", "baz"}

\* Package identifiers ("{name}-{version}", package.py extract_identifier).
Identifiers == {"Foo-1", "Bar-1", "Baz-1"}

\* The package pip installs for a request string.
Resolve(request) ==
    CASE request = "foo" -> "Foo-1"
      [] request = "foo==1" -> "Foo-1"
      [] request = "bar" -> "Bar-1"
      [] request = "baz" -> "Baz-1"

\* pipdeptree's "dependencies" of a package: foo -> bar -> foo is a cycle,
\* baz has none.
Dependencies(identifier) ==
    CASE identifier = "Foo-1" -> << [key |-> "bar", identifier |-> "Bar-1"] >>
      [] identifier = "Bar-1" -> << [key |-> "foo", identifier |-> "Foo-1"] >>
      [] identifier = "Baz-1" -> << >>

\* A request of the caller's list: a string.
StrRequest(request) == [type |-> "str", request |-> request, identifier |-> None]

\* An element of mapping["requirements"] as fetch_mapping_from_environ builds
\* it: a dict {"identifier": ..., "request": ...}, not a string.
DictRequest(dependency) ==
    [type |-> "dict", request |-> dependency.key, identifier |-> dependency.identifier]

\* The mapping fetch_mapping_from_environ returns for a package; the key
\* "requirements" is set only when the package has dependencies.
FetchMappingFromEnviron(identifier) ==
    [identifier |-> identifier,
     target |-> identifier,
     requirements |->
        [i \in 1..Len(Dependencies(identifier)) |->
            DictRequest(Dependencies(identifier)[i])]]

\* What one call of qip.package.install can do: return the mapping, raise
\* RuntimeError (pip failed, or the package is absent from the dependency
\* report), or raise ValueError (no package name in pip's output).
InstallerOutcomes == {"ok", "RuntimeError", "ValueError"}

\* `request in installed_requests`: hashing a dict raises TypeError.
Hashable(request) == request.type = "str"

(***************************************************************************)
(* install(): helpers, one per decision of the loop body.                  *)
(***************************************************************************)
\* Mutant: the recorded requests are never consulted.
RequestNeverInstalled(request, requests) == FALSE

\* `if request in installed_requests: continue`
RequestInstalled(request, requests) == request.request \in requests

\* Mutant: the handler catches nothing.
CaughtNothing(error) == FALSE

\* `except RuntimeError as error: ... continue`
Caught(error) == error = "RuntimeError"

\* Mutant: the recorded packages are never consulted.
PackageNeverInstalled(mapping, packages) == FALSE

\* `if package_mapping["identifier"] in installed_packages: continue`
PackageInstalled(mapping, packages) == mapping.identifier \in packages

\* A package that is not recorded.
AddPackageNever(mapping, packages) == packages

\* `installed_packages.add(package_mapping["identifier"])`
AddPackage(mapping, packages) == packages \cup {mapping.identifier}

\* `installed_requests.add(request)`
AddRequest(request, requests) == requests \cup {request.request}

\* Mutant: the editable flag is not reset.
KeepEditable(editable) == editable

\* A flag that is turned over.
ToggleEditable(editable) == ~editable

\* `editable_mode = False` after a copy.
ResetEditable(editable) == FALSE

\* A build directory that is not cleared.
KeepDirectoryContent(content) == content

\* qip.filesystem.remove_directory_content(package_path)
RemoveDirectoryContent(content) == {}

\* What the installer leaves in the build directory: the package it built,
\* or the remains of a failed build, beside what was there.
Built(content, files) == content \cup {files}

\* Requirements put at the front of the queue.
PutRequirementsFirst(q, mapping, no_dependencies) ==
    IF no_dependencies THEN q ELSE mapping.requirements \o q

\* Requirements queued whatever no_dependencies says.
PutRequirementsAlways(q, mapping, no_dependencies) == q \o mapping.requirements

\* `for request in package_mapping.get("requirements", []): queue.put(request)`
PutRequirements(q, mapping, no_dependencies) ==
    IF no_dependencies THEN q ELSE q \o mapping.requirements

(***************************************************************************)
(* copy_to_destination() and _confirm_overwrite().                         *)
(***************************************************************************)
Answers == {"y", "n", "ya", "na"}

\* answer[0] == "y"
FirstIsY(answer) == answer \in {"y", "ya"}

\* Mutant: every answer is taken as an answer for all.
HasAAlways(answer) == TRUE

\* "a" in answer
HasA(answer) == answer \in {"ya", "na"}

\* _confirm_overwrite: <<overwrite, overwrite_next>> for the answer typed.
ConfirmOverwrite(answer) ==
    << Bool(FirstIsY(answer)),
       IF HasA(answer) THEN Bool(FirstIsY(answer)) ELSE None >>

\* A directory of the destination tree that does not exist.
Absent == [exists |-> FALSE, content |-> {}]

\* Mutant: the policy is forgotten after a copy.
OverwriteNextForgets(policy) == None

\* `overwrite_next = overwrite`: by default the policy is handed on as it is.
OverwriteNext(policy) == policy

\* Mutant: an existing target is always overwritten.
OverwritesAlways(now) == TRUE

\* `if overwrite:` on an existing target: remove it and copy, else skip.
Overwrites(now) == now = True

\* copy_to_destination(mapping, source_path, destination_path, overwrite):
\* `tree` is the destination tree, `source` the content of source_path and
\* `answer` what the operator types if prompted. Returns the (success,
\* overwrite_next) pair with the new tree and what was done on the way.
CopyToDestination(mapping, source, tree, policy, answer) ==
    LET target == mapping.target
        isdir == tree[target].exists
        prompted == isdir /\ policy = None
        confirmed == IF prompted THEN ConfirmOverwrite(answer)
                     ELSE << policy, OverwriteNext(policy) >>
        now == confirmed[1]
        overwrite_next == confirmed[2]
    IN  IF isdir /\ ~Overwrites(now)
        THEN [success |-> FALSE, overwrite |-> overwrite_next, tree |-> tree,
              conflict |-> isdir, prompted |-> prompted]
        ELSE [success |-> TRUE, overwrite |-> overwrite_next,
              tree |-> [tree EXCEPT ![target] =
                            [exists |-> TRUE, content |-> source]],
              conflict |-> isdir, prompted |-> prompted]

(***************************************************************************)
(* Strings of definition.py. A string is a sequence of characters, so that *)
(* float(), replace(" ", "") and string comparison are computed.           *)
(***************************************************************************)
\* The characters the model's strings are made of, in code point order.
Chars == << " ", ".", "0", "1", "2", "3", "7", "9", ":", "[", "]", "a", "b",
            "c", "d", "e", "i", "l", "m", "n", "p", "r", "v", "y" >>

Ord(c) == CHOOSE i \in 1..Len(Chars) : Chars[i] = c

Digits == {"0", "1", "2", "3", "7", "9"}

DigitValue(c) ==
    CASE c = "0" -> 0 [] c = "1" -> 1 [] c = "2" -> 2 [] c = "3" -> 3
      [] c = "7" -> 7 [] c = "9" -> 9

\* Fractional digits the model's numbers keep.
FractionDigits == 2

RECURSIVE Pow10(_)
Pow10(n) == IF n = 0 THEN 1 ELSE 10 * Pow10(n - 1)

\* The value of a run of digits.
RECURSIVE Number(_)
Number(s) ==
    IF s = << >> THEN 0
    ELSE 10 * Number(SubSeq(s, 1, Len(s) - 1)) + DigitValue(s[Len(s)])

\* float() accepts digits with at most one point and at least one digit.
IsDecimal(s) ==
    /\ \A i \in 1..Len(s) : s[i] \in Digits \cup {"."}
    /\ Cardinality({i \in 1..Len(s) : s[i] = "."}) <= 1
    /\ \E i \in 1..Len(s) : s[i] \in Digits

\* float() also accepts "nan", which compares unequal to everything.
IsNan(s) == s = << "n", "a", "n" >>

\* The value of a decimal, as a count of 10^-FractionDigits.
Decimal(s) ==
    LET points == {i \in 1..Len(s) : s[i] = "."}
        point == IF points = {} THEN Len(s) + 1 ELSE CHOOSE i \in points : TRUE
        whole == SubSeq(s, 1, point - 1)
        fraction == SubSeq(s, point + 1, Len(s))
    IN  Number(whole) * Pow10(FractionDigits)
        + Number(fraction) * Pow10(FractionDigits - Len(fraction))

\* `-float(variant["identifier"])`, or the identifier itself on ValueError.
Negated(identifier) ==
    IF IsNan(identifier)
    THEN [type |-> "float", nan |-> TRUE, value |-> 0, string |-> << >>]
    ELSE IF IsDecimal(identifier)
    THEN [type |-> "float", nan |-> FALSE, value |-> -Decimal(identifier),
          string |-> << >>]
    ELSE [type |-> "str", nan |-> FALSE, value |-> 0, string |-> identifier]

\* s < t for strings: by code point, a proper prefix first.
RECURSIVE StrLess(_, _)
StrLess(s, t) ==
    IF t = << >> THEN FALSE
    ELSE IF s = << >> THEN TRUE
    ELSE IF s[1] # t[1] THEN Ord(s[1]) < Ord(t[1])
    ELSE StrLess(Tail(s), Tail(t))

\* identifier1 == identifier2 on two values of one type.
KeyEqual(k1, k2) ==
    IF k1.type = "float" THEN ~k1.nan /\ ~k2.nan /\ k1.value = k2.value
    ELSE k1.string = k2.string

\* identifier1 < identifier2 on two values of one type.
KeyLess(k1, k2) ==
    IF k1.type = "float" THEN ~k1.nan /\ ~k2.nan /\ k1.value < k2.value
    ELSE StrLess(k1.string, k2.string)

\* A comparison of the two identifiers as strings, whatever they parse to.
CompareStrings(variant1, variant2) ==
    IF variant1.identifier = variant2.identifier THEN 0
    ELSE IF StrLess(variant1.identifier, variant2.identifier) THEN -1 ELSE 1

\* _compare_variants(variant1, variant2): -1, 0 or 1.
CompareVariants(variant1, variant2) ==
    LET identifier1 == Negated(variant1.identifier)
        identifier2 == Negated(variant2.identifier)
    IN  IF identifier1.type = identifier2.type
        THEN IF KeyEqual(identifier1, identifier2) THEN 0
             ELSE IF KeyLess(identifier1, identifier2) THEN -1 ELSE 1
        ELSE IF identifier1.type = "float" THEN -1
        ELSE 1

\* NAMESPACE
NAMESPACE == << "l", "i", "b", "r", "a", "r", "y" >>

\* request.replace(" ", "")
NoSpaces(s) == SelectSeq(s, LAMBDA c : c # " ")

\* str(requirement) of "NAMESPACE::request" with the Python identifier as its
\* extra: the parsed requirement is written without the spaces of the request.
Qualified(request, identifier) ==
    NAMESPACE \o << ":", ":" >> \o NoSpaces(request) \o << "[" >> \o identifier
        \o << "]" >>

\* The requirements with the Python request behind them.
ProcessRequirementsLast(mapping, python_request) ==
    [i \in 1..Len(mapping.requirements) |->
        Qualified(mapping.requirements[i], mapping.python.identifier)]
    \o << python_request >>

\* _process_requirements(mapping, python_request)
ProcessRequirements(mapping, python_request) ==
    << python_request >> \o
    [i \in 1..Len(mapping.requirements) |->
        Qualified(mapping.requirements[i], mapping.python.identifier)]

\* The requirements that are not in the variant, spaces apart:
\* `[req for req in requirements if not any(...)]`
NewRequirements(requirements, existing) ==
    SelectSeq(requirements,
              LAMBDA req : ~\E i \in 1..Len(existing) :
                              NoSpaces(req) = NoSpaces(existing[i]))

\* variants.insert(index, variant), index counted from 0.
Insert(list, index, variant) ==
    SubSeq(list, 1, index) \o << variant >> \o SubSeq(list, index + 1, Len(list))

\* The index of the new variant: one past the last variant the new identifier
\* compares after, 0 if there is none.
InsertIndex(list, identifier) ==
    LET after == {i \in 1..Len(list) :
                    CompareVariants([identifier |-> identifier], list[i]) > 0}
    IN  IF after = {} THEN 0 ELSE CHOOSE i \in after : \A j \in after : j <= i

\* A scan that takes no variant for the record's.
FoundNone(list, identifier) == {}

\* The variants the scan takes for the record's:
\* `if variant["identifier"] != identifier: ... continue`
Found(list, identifier) ==
    {i \in 1..Len(list) : list[i].identifier = identifier}

\* A reconciler that takes the variant it finds out of the list and puts it
\* back at the front.
UpdateVariantsMoves(list, mapping, path) ==
    LET identifier == mapping.python.identifier
        found == Found(list, identifier)
        new == [identifier |-> identifier,
                install_location |-> path,
                requirements |->
                    ProcessRequirements(mapping, mapping.python.request)]
    IN  IF found # {}
        THEN LET index == CHOOSE i \in found : \A j \in found : i <= j
             IN  << [list[index] EXCEPT !.install_location = path] >>
                    \o SubSeq(list, 1, index - 1)
                    \o SubSeq(list, index + 1, Len(list))
        ELSE Insert(list, InsertIndex(list, identifier), new)

\* _update_variants(variants, mapping, path): the list as the call leaves it.
UpdateVariants(list, mapping, path) ==
    LET identifier == mapping.python.identifier
        requirements == ProcessRequirements(mapping, mapping.python.request)
        found == Found(list, identifier)
    IN  IF found # {}
        THEN LET index == CHOOSE i \in found : \A j \in found : i <= j
                 variant == list[index]
             IN  [list EXCEPT ![index] =
                    [variant EXCEPT
                        !.install_location = path,
                        !.requirements =
                            @ \o NewRequirements(requirements, @)]]
        ELSE Insert(list, InsertIndex(list, identifier),
                    [identifier |-> identifier,
                     install_location |-> path,
                     requirements |-> requirements])

(***************************************************************************)
(* create() and update() of definition.py. An optional value is a set with *)
(* at most one element: {} is None or a missing key.                       *)
(***************************************************************************)
\* `not value`: None and the empty value are false.
Falsy(value, empty) == value = {} \/ value = {empty}

\* A field that is written whatever it holds.
SetAlways(current, empty, value) == {value}

\* `if not definition.field: definition = definition.set(field, value)`
SetIfNot(current, empty, value) ==
    IF Falsy(current, empty) THEN {value} ELSE current

\* sorted(variants, key=functools.cmp_to_key(_compare_variants)): a stable
\* sort, each variant put behind those that do not compare after it.
RECURSIVE SortVariants(_)
SortVariants(list) ==
    IF list = << >> THEN << >>
    ELSE LET front == SortVariants(SubSeq(list, 1, Len(list) - 1))
             variant == list[Len(list)]
             before == {i \in 1..Len(front) :
                            CompareVariants(front[i], variant) <= 0}
         IN  Insert(front, Cardinality(before), variant)

\* A system mapping whose os constraint admits two major versions.
ProcessSystemMappingWide(system) ==
    [platform |-> system.platform,
     arch |-> system.arch,
     os |-> [name |-> system.os.name,
             min_version |-> system.os.major_version,
             max_version |-> system.os.major_version + 2]]

\* _process_system_mapping(mapping): the os constraint "name >= m, < m + 1"
\* is kept as its three parts.
ProcessSystemMapping(system) ==
    [platform |-> system.platform,
     arch |-> system.arch,
     os |-> [name |-> system.os.name,
             min_version |-> system.os.major_version,
             max_version |-> system.os.major_version + 1]]

\* "${INSTALL_LOCATION}:${PYTHONPATH}" as the list of its entries.
DefaultPythonPath == << "${INSTALL_LOCATION}", "${PYTHONPATH}" >>

\* A substitution that leaves the text as it is.
SubstituteNothing(text, value) == text

\* wiz.environ.substitute(text, {"PYTHONPATH": value}): every ${PYTHONPATH}
\* of the text is replaced by the value.
RECURSIVE Substitute(_, _)
Substitute(text, value) ==
    IF text = << >> THEN << >>
    ELSE (IF text[1] = "${PYTHONPATH}" THEN value ELSE << text[1] >>)
            \o Substitute(Tail(text), value)

\* os.path.join("${INSTALL_ROOT}", mapping["target"], library-path)
InstallRootLocation(mapping) ==
    << "${INSTALL_ROOT}", mapping.target, mapping.python.library_path >>

\* The path of the variant: the source location in editable mode, the place
\* under the install root otherwise.
LocationPath(mapping, editable_mode) ==
    IF editable_mode THEN mapping.location ELSE InstallRootLocation(mapping)

\* The stored variants alone.
SeedStoredOnly(stored, additional_variants) == stored

\* `variants = sorted(definition.variants + additional_variants, ...)` when
\* additional_variants is not None, definition.variants as they are otherwise.
SeedVariants(stored, additional_variants) ==
    IF additional_variants = {} THEN stored
    ELSE SortVariants(stored \o (CHOOSE list \in additional_variants : TRUE))

\* create(mapping, output_path, editable_mode, additional_variants)
Create(mapping, output_path, editable, additional_variants) ==
    [identifier |-> mapping.key,
     version |-> {mapping.version},
     description |-> {mapping.description},
     namespace |-> {NAMESPACE},
     system |-> {ProcessSystemMapping(system) : system \in mapping.system},
     command |-> mapping.command,
     python_path |-> DefaultPythonPath,
     install_root |-> IF editable THEN {} ELSE {output_path},
     variants |-> UpdateVariants(SeedVariants(<< >>, additional_variants),
                                 mapping, LocationPath(mapping, editable))]

\* update(definition, mapping, output_path, editable_mode, additional_variants)
Update(definition, mapping, output_path, editable, additional_variants) ==
    [identifier |-> definition.identifier,
     version |-> SetIfNot(definition.version, "", mapping.version),
     description |-> SetIfNot(definition.description, "", mapping.description),
     namespace |-> SetIfNot(definition.namespace, << >>, NAMESPACE),
     system |-> IF definition.system = {}
                THEN {ProcessSystemMapping(system) : system \in mapping.system}
                ELSE definition.system,
     command |-> definition.command \cup mapping.command,
     python_path |-> IF definition.python_path = << >> THEN DefaultPythonPath
                     ELSE Substitute(DefaultPythonPath, definition.python_path),
     install_root |-> IF editable THEN definition.install_root
                      ELSE {output_path},
     variants |-> UpdateVariants(
                    SeedVariants(definition.variants, additional_variants),
                    mapping, LocationPath(mapping, editable))]

(***************************************************************************)
(* State.                                                                  *)
(***************************************************************************)
VARIABLES
    args,               \* the arguments install() was called with
    pc,                 \* "start", "loop", "done" (returned), "raised"
    exception,          \* the exception install() raised, or None
    scratch,            \* cache_path and package_path: "none", "created", "removed"
    package_path,       \* content of the scratch build directory
    queue,              \* the FIFO of requests
    installed_packages, \* identifiers recorded
    installed_requests, \* request strings recorded
    overwrite,          \* the overwrite policy: True, False or None
    editable_mode,      \* the editable flag as the loop holds it
    destination,        \* the tree under output_path, by target
    install_calls,      \* history: qip.package.install calls per request string
    copy_calls,         \* history: copy_to_destination calls per identifier
    prompts,            \* history: answers the operator gave, in order
    event,              \* history: what the last step did
    variants,           \* the variant list _update_variants mutates
    calls,              \* history: identifiers _update_variants was called with
    seed,               \* history: the variant list before the first call
    last,               \* history: the arguments of the last _update_variants call
    input,              \* the arguments create() or update() is called with
    result,             \* the Definition create() or update() returned, if any
    operands,           \* three identifiers for _compare_variants
    compared            \* what _compare_variants returned for them, if called

orchestrator_vars ==
    << args, pc, exception, scratch, package_path, queue, installed_packages,
       installed_requests, overwrite, editable_mode, destination,
       install_calls, copy_calls, prompts, event >>

variant_vars == << variants, calls, seed, last >>

definition_vars == << input, result >>

compare_vars == << operands, compared >>

vars == << orchestrator_vars, variant_vars, definition_vars, compare_vars >>

\* Lists of at most n elements of S.
SeqUpTo(S, n) == UNION {[1..k -> S] : k \in 0..n}

NoEvent ==
    [kind |-> "none", request |-> None, dependency |-> FALSE,
     identifier |-> None, editable |-> FALSE, exported |-> FALSE,
     conflict |-> FALSE, prompted |-> FALSE, answer |-> None,
     error |-> None, cleared |-> FALSE]

\* A directory some earlier run left in the destination tree.
Old == [exists |-> TRUE, content |-> {"old"}]

Init ==
    /\ args \in [requests : SeqUpTo(RequestStrings, MaxRequests),
                 overwrite : {True, False, None},
                 no_dependencies : BOOLEAN,
                 editable_mode : BOOLEAN,
                 definition_path : {None, "/definitions"},
                 existing : SUBSET Identifiers]
    /\ pc = "start"
    /\ exception = None
    /\ scratch = "none"
    /\ package_path = {}
    /\ queue = << >>
    /\ installed_packages = {}
    /\ installed_requests = {}
    /\ overwrite = args.overwrite
    /\ editable_mode = args.editable_mode
    /\ destination = [t \in Identifiers |-> IF t \in args.existing THEN Old ELSE Absent]
    /\ install_calls = [r \in RequestStrings |-> 0]
    /\ copy_calls = [i \in Identifiers |-> 0]
    /\ prompts = << >>
    /\ event = NoEvent
    /\ variants = << >>
    /\ calls = << >>
    /\ seed = << >>
    /\ last = {}
    /\ input = {}
    /\ result = {}
    /\ operands = << >>
    /\ compared = {}

(***************************************************************************)
(* install(): the steps.                                                   *)
(***************************************************************************)
\* An exit that leaves the scratch directories as they are.
FinallyKeeps(how, error) ==
    /\ pc' = how
    /\ exception' = error
    /\ scratch' = scratch

\* The `finally:` clause: both scratch directories are removed.
Finally(how, error) ==
    /\ pc' = how
    /\ exception' = error
    /\ scratch' = "removed"

Continue == UNCHANGED << pc, exception, scratch >>

\* Lines 66-90: the directories are made, the context is fetched and the
\* queue is filled with the caller's requests.
Setup ==
    /\ pc = "start"
    /\ pc' = "loop"
    /\ scratch' = "created"
    /\ queue' = [i \in 1..Len(args.requests) |-> StrRequest(args.requests[i])]
    /\ event' = [NoEvent EXCEPT !.kind = "setup"]
    /\ UNCHANGED << args, exception, package_path, installed_packages,
                    installed_requests, overwrite, editable_mode, destination,
                    install_calls, copy_calls, prompts, variant_vars, definition_vars, compare_vars >>

\* Lines 76-80: fetch_context_mapping or ensure_directory raises inside `try`.
SetupRaises ==
    /\ pc = "start"
    /\ Finally("raised", "RuntimeError")
    /\ event' = [NoEvent EXCEPT !.kind = "setup_error"]
    /\ UNCHANGED << args, package_path, queue, installed_packages,
                    installed_requests, overwrite, editable_mode, destination,
                    install_calls, copy_calls, prompts, variant_vars, definition_vars, compare_vars >>

\* Line 92: the queue is empty, the loop ends and install() returns.
Return ==
    /\ pc = "loop"
    /\ queue = << >>
    /\ Finally("done", None)
    /\ event' = [NoEvent EXCEPT !.kind = "return"]
    /\ UNCHANGED << args, package_path, queue, installed_packages,
                    installed_requests, overwrite, editable_mode, destination,
                    install_calls, copy_calls, prompts, variant_vars, definition_vars, compare_vars >>

\* Lines 93-94 on a dict: the membership test raises TypeError.
Unhashable ==
    /\ pc = "loop"
    /\ queue # << >>
    /\ ~Hashable(Head(queue))
    /\ queue' = Tail(queue)
    /\ Finally("raised", "TypeError")
    /\ event' = [NoEvent EXCEPT !.kind = "unhashable",
                                !.request = Head(queue).request,
                                !.dependency = TRUE]
    /\ UNCHANGED << args, package_path, installed_packages,
                    installed_requests, overwrite, editable_mode, destination,
                    install_calls, copy_calls, prompts, variant_vars, definition_vars, compare_vars >>

\* Lines 93-95: the request was recorded, it is dropped.
SkipRequest ==
    /\ pc = "loop"
    /\ queue # << >>
    /\ Hashable(Head(queue))
    /\ RequestInstalled(Head(queue), installed_requests)
    /\ queue' = Tail(queue)
    /\ Continue
    /\ event' = [NoEvent EXCEPT !.kind = "skip_request",
                                !.request = Head(queue).request]
    /\ UNCHANGED << args, package_path, installed_packages,
                    installed_requests, overwrite, editable_mode, destination,
                    install_calls, copy_calls, prompts, variant_vars, definition_vars, compare_vars >>

\* The guard of every step that reaches the installer (lines 93-105).
Installing ==
    /\ pc = "loop"
    /\ queue # << >>
    /\ Hashable(Head(queue))
    /\ ~RequestInstalled(Head(queue), installed_requests)

\* Line 99: remove_directory_content fails on the build directory; the
\* error leaves install() through `finally`.
ClearRaises ==
    /\ Installing
    /\ queue' = Tail(queue)
    /\ Finally("raised", "OSError")
    /\ event' = [NoEvent EXCEPT !.kind = "clear_error",
                                !.request = Head(queue).request,
                                !.error = "OSError"]
    /\ UNCHANGED << args, package_path, installed_packages,
                    installed_requests, overwrite, editable_mode, destination,
                    install_calls, copy_calls, prompts, variant_vars,
                    definition_vars, compare_vars >>

\* What every step that reaches the installer records.
Installed(kind) ==
    [NoEvent EXCEPT !.kind = kind,
                    !.request = Head(queue).request,
                    !.dependency = ~Hashable(Head(queue)),
                    !.editable = editable_mode,
                    !.cleared = TRUE]

CountInstall ==
    install_calls' = [install_calls EXCEPT ![Head(queue).request] = @ + 1]

\* Lines 97-109: the installer raises. RuntimeError is caught and the loop
\* goes on; any other exception leaves install() through `finally`.
InstallRaises ==
    /\ Installing
    /\ \E error \in InstallerOutcomes \ {"ok"} :
        /\ IF Caught(error) THEN Continue ELSE Finally("raised", error)
        /\ event' = [Installed("install_error") EXCEPT !.error = error]
    /\ queue' = Tail(queue)
    /\ package_path' = Built(RemoveDirectoryContent(package_path), "partial")
    /\ CountInstall
    /\ UNCHANGED << args, installed_packages, installed_requests, overwrite,
                    editable_mode, destination, copy_calls, prompts,
                    variant_vars, definition_vars, compare_vars >>

\* Lines 97-112: the installer returns a package that was recorded.
SkipPackage ==
    /\ Installing
    /\ LET mapping == FetchMappingFromEnviron(Resolve(Head(queue).request))
       IN  /\ PackageInstalled(mapping, installed_packages)
           /\ package_path' = Built(RemoveDirectoryContent(package_path),
                                    mapping.identifier)
           /\ event' = [Installed("skip_package") EXCEPT
                            !.identifier = mapping.identifier]
    /\ queue' = Tail(queue)
    /\ Continue
    /\ CountInstall
    /\ UNCHANGED << args, installed_packages, installed_requests, overwrite,
                    editable_mode, destination, copy_calls, prompts,
                    variant_vars, definition_vars, compare_vars >>

\* Lines 97-145: the installer returns a new package; it is recorded and
\* copy_to_destination is called. A skipped copy ends the iteration; after a
\* copy the definition is exported if asked for (the export may raise), the
\* editable flag is reset and the requirements are queued.
Copy ==
    /\ Installing
    /\ \E answer \in Answers, export \in {"ok", "KeyError"} :
        LET request == Head(queue)
            mapping == FetchMappingFromEnviron(Resolve(request.request))
            source == Built(RemoveDirectoryContent(package_path),
                            mapping.identifier)
            copy == CopyToDestination(mapping, source, destination,
                                      overwrite, answer)
            exporting == copy.success /\ args.definition_path # None
            raising == exporting /\ export # "ok"
        IN  /\ ~PackageInstalled(mapping, installed_packages)
            /\ copy.prompted \/ answer = "n"
            /\ exporting \/ export = "ok"
            /\ package_path' = source
            /\ installed_packages' = AddPackage(mapping, installed_packages)
            /\ installed_requests' = AddRequest(request, installed_requests)
            /\ copy_calls' = [copy_calls EXCEPT ![mapping.identifier] = @ + 1]
            /\ destination' = copy.tree
            /\ overwrite' = copy.overwrite
            /\ prompts' = IF copy.prompted THEN Append(prompts, answer)
                          ELSE prompts
            /\ event' = [Installed(IF ~copy.success THEN "copy_skipped"
                                   ELSE IF raising THEN "export_error"
                                   ELSE "copied") EXCEPT
                            !.identifier = mapping.identifier,
                            !.exported = exporting,
                            !.conflict = copy.conflict,
                            !.prompted = copy.prompted,
                            !.answer = IF copy.prompted THEN answer ELSE None,
                            !.error = IF raising THEN export ELSE None]
            /\ IF raising THEN Finally("raised", export) ELSE Continue
            /\ editable_mode' = IF copy.success /\ ~raising
                                THEN ResetEditable(editable_mode)
                                ELSE editable_mode
            /\ queue' = IF copy.success /\ ~raising
                        THEN PutRequirements(Tail(queue), mapping,
                                             args.no_dependencies)
                        ELSE Tail(queue)
    /\ CountInstall
    /\ UNCHANGED << args, variant_vars, definition_vars, compare_vars >>

Next ==
    \/ Setup
    \/ SetupRaises
    \/ Return
    \/ Unhashable
    \/ SkipRequest
    \/ ClearRaises
    \/ InstallRaises
    \/ SkipPackage
    \/ Copy

Spec == Init /\ [][Next]_vars

(***************************************************************************)
(* The variant reconciler: _update_variants applied to one list, starting  *)
(* from the empty list.                                                    *)
(***************************************************************************)
\* Python identifiers of the records: versions and labels.
PythonIdentifiers ==
    { << "2", ".", "7" >>, << "3", ".", "9" >>, << "3", ".", "1" >>,
      << "3", ".", "1", "0" >>, << "d", "e", "v" >>, << "r", "c", "1" >> }

\* mapping["python"]["request"] for an identifier.
PythonRequest(identifier) == << "p", "y", " " >> \o identifier

\* mapping["requirements"] of the records.
RequirementLists ==
    { << >>, << << "b", "a", "r" >> >>,
      << << "b", "a", "r" >>, << " ", "b", "a", "r" >> >> }

\* Paths the package is installed to.
Paths == {"/a", "/b"}

InitVariants ==
    /\ args = [requests |-> << >>, overwrite |-> False,
               no_dependencies |-> FALSE, editable_mode |-> FALSE,
               definition_path |-> None, existing |-> {}]
    /\ pc = "done"
    /\ exception = None
    /\ scratch = "none"
    /\ package_path = {}
    /\ queue = << >>
    /\ installed_packages = {}
    /\ installed_requests = {}
    /\ overwrite = False
    /\ editable_mode = FALSE
    /\ destination = [t \in Identifiers |-> Absent]
    /\ install_calls = [r \in RequestStrings |-> 0]
    /\ copy_calls = [i \in Identifiers |-> 0]
    /\ prompts = << >>
    /\ event = NoEvent
    /\ variants = << >>
    /\ calls = << >>
    /\ seed = << >>
    /\ last = {}
    /\ input = {}
    /\ result = {}
    /\ operands = << >>
    /\ compared = {}

\* One call of _update_variants on the list, the n-th at most.
UpdateVariantsUpTo(n) ==
    /\ Len(calls) < n
    /\ \E identifier \in PythonIdentifiers, requirements \in RequirementLists,
          path \in Paths :
        LET mapping == [python |-> [identifier |-> identifier,
                                    request |-> PythonRequest(identifier)],
                        requirements |-> requirements]
        IN  /\ variants' = UpdateVariants(variants, mapping, path)
            /\ calls' = Append(calls, identifier)
            /\ last' = {[mapping |-> mapping, path |-> path]}
    /\ UNCHANGED << orchestrator_vars, seed, definition_vars, compare_vars >>

UpdateVariantsCall == UpdateVariantsUpTo(MaxCalls)

NextVariants == UpdateVariantsCall

SpecVariants == InitVariants /\ [][NextVariants]_vars

(***************************************************************************)
(* The variant reconciler on a list some definition already holds.         *)
(***************************************************************************)
\* A variant as a definition file stores it.
Variant(identifier, path, requests) ==
    [identifier |-> identifier,
     install_location |-> path,
     requirements |-> << PythonRequest(identifier) >> \o
        [i \in 1..Len(requests) |-> Qualified(requests[i], identifier)]]

\* The `variants` argument: lists found in definitions, in any order, one of
\* them with an identifier twice.
StoredVariants ==
    { << >>,
      << Variant(<< "2", ".", "7" >>, "/a", << >>) >>,
      << Variant(<< "2", ".", "7" >>, "/a", << >>),
         Variant(<< "3", ".", "9" >>, "/a", << << "b", "a", "r" >> >>) >>,
      << Variant(<< "d", "e", "v" >>, "/a", << >>),
         Variant(<< "3", ".", "1", "0" >>, "/b", << >>) >>,
      << Variant(<< "3", ".", "9" >>, "/a", << >>),
         Variant(<< "3", ".", "9" >>, "/b", << >>) >>,
      << [identifier |-> << "3", ".", "9" >>, install_location |-> "/b",
          requirements |-> << >>],
         [identifier |-> << "2", ".", "7" >>, install_location |-> "/b",
          requirements |->
            << Qualified(<< "b", "a", "r" >>, << "2", ".", "7" >>) >>] >> }

\* No process is running and nothing was called.
Idle ==
    /\ args = [requests |-> << >>, overwrite |-> False,
               no_dependencies |-> FALSE, editable_mode |-> FALSE,
               definition_path |-> None, existing |-> {}]
    /\ pc = "done"
    /\ exception = None
    /\ scratch = "none"
    /\ package_path = {}
    /\ queue = << >>
    /\ installed_packages = {}
    /\ installed_requests = {}
    /\ overwrite = False
    /\ editable_mode = FALSE
    /\ destination = [t \in Identifiers |-> Absent]
    /\ install_calls = [r \in RequestStrings |-> 0]
    /\ copy_calls = [i \in Identifiers |-> 0]
    /\ prompts = << >>
    /\ event = NoEvent

InitReconcile ==
    /\ Idle
    /\ seed \in StoredVariants
    /\ variants = seed
    /\ calls = << >>
    /\ last = {}
    /\ input = {}
    /\ result = {}
    /\ operands = << >>
    /\ compared = {}

\* One call of _update_variants on the stored list.
ReconcileCall == UpdateVariantsUpTo(MaxReconciles)

NextReconcile == ReconcileCall

SpecReconcile == InitReconcile /\ [][NextReconcile]_vars

(***************************************************************************)
(* The synthesizer: one call of create() or update(), as export() makes    *)
(* it: update() on the definition retrieved from the package, create() if  *)
(* there is none.                                                          *)
(***************************************************************************)
\* mapping["system"] of a record, and the system a definition declares.
Linux == [platform |-> "linux", arch |-> "x86_64",
          os |-> [name |-> "el", major_version |-> 7]]
Windows == [platform |-> "windows", arch |-> "x86_64",
            os |-> [name |-> "windows", major_version |-> 10]]

\* The package mappings create() and update() are given.
Records ==
    { [key |-> "foo", version |-> "1.2", description |-> "Foo",
       system |-> system, command |-> command,
       location |-> << "/src/foo" >>, target |-> "Foo/Foo-1.2",
       python |-> [identifier |-> identifier,
                   request |-> PythonRequest(identifier),
                   library_path |-> "lib/python"],
       requirements |-> requirements] :
        identifier \in { << "2", ".", "7" >>, << "3", ".", "9" >>,
                         << "3", ".", "1", "0" >> },
        requirements \in { << >>, << << "b", "a", "r" >> >> },
        system \in { {}, {Linux}, {Windows} },
        command \in { {}, {"foo"} } }

\* The place a variant exported before was installed to.
Exported == << "${INSTALL_ROOT}", "Foo/Foo-1.2", "lib/python" >>

\* definition.variants of the definition a package carries: none, and lists
\* in either order.
DefinitionVariants ==
    { << >>,
      << Variant(<< "2", ".", "7" >>, Exported, << >>) >>,
      << Variant(<< "2", ".", "7" >>, Exported, << >>),
         Variant(<< "3", ".", "9" >>, Exported, << << "b", "a", "r" >> >>) >>,
      << Variant(<< "3", ".", "9" >>, Exported, << >>),
         Variant(<< "d", "e", "v" >>, Exported, << >>) >> }

\* The definitions retrieve() loads from a package.
Definitions ==
    [identifier : {"foo"},
     version : { {}, {""}, {"0.9"} },
     description : { {}, {"A package."} },
     namespace : { {}, {<< "v", "f", "x" >>} },
     system : { {}, {ProcessSystemMapping(Windows)} },
     command : { {"foo-gui"} },
     python_path : { << >>, << "/extra" >>,
                     << "${INSTALL_LOCATION}", "/extra", "${PYTHONPATH}" >> },
     install_root : { {}, {"/old"} },
     variants : DefinitionVariants]

\* additional_variants: None, or the variants of the definition fetched
\* from the definition mapping.
AdditionalVariants ==
    { {}, {<< >>},
      {<< Variant(<< "2", ".", "7" >>, Exported, << >>),
          Variant(<< "3", ".", "1" >>, Exported, << >>) >>} }

InitDefinition ==
    /\ Idle
    /\ input \in [definition : {{}} \cup {{definition} : definition \in Definitions},
                   mapping : Records,
                   output_path : {"/out"},
                   editable_mode : BOOLEAN,
                   additional_variants : AdditionalVariants]
    /\ result = {}
    /\ variants = << >>
    /\ calls = << >>
    /\ seed = << >>
    /\ last = {}
    /\ operands = << >>
    /\ compared = {}

\* export(): no definition was retrieved, create() is called.
CreateCall ==
    /\ result = {}
    /\ input.definition = {}
    /\ result' = {Create(input.mapping, input.output_path, input.editable_mode,
                         input.additional_variants)}
    /\ UNCHANGED << orchestrator_vars, variant_vars, input, compare_vars >>

\* export(): a definition was retrieved, update() is called on it.
UpdateCall ==
    /\ result = {}
    /\ \E definition \in input.definition :
        result' = {Update(definition, input.mapping, input.output_path,
                          input.editable_mode, input.additional_variants)}
    /\ UNCHANGED << orchestrator_vars, variant_vars, input, compare_vars >>

NextDefinition ==
    \/ CreateCall
    \/ UpdateCall

SpecDefinition == InitDefinition /\ [][NextDefinition]_vars

(***************************************************************************)
(* The comparator: _compare_variants on three identifiers, each pair of    *)
(* them in both orders.                                                    *)
(***************************************************************************)
\* Identifiers the comparator is given: the Python identifiers, a version
\* of three parts and the name of the float that equals nothing.
CompareIdentifiers ==
    PythonIdentifiers \cup
        { << "2", ".", "7", ".", "1" >>, << "n", "a", "n" >> }

InitCompare ==
    /\ Idle
    /\ operands \in [{1, 2, 3} -> CompareIdentifiers]
    /\ compared = {}
    /\ variants = << >>
    /\ calls = << >>
    /\ seed = << >>
    /\ last = {}
    /\ input = {}
    /\ result = {}

\* _compare_variants on every pair of the operands.
CompareCall ==
    /\ compared = {}
    /\ compared' =
        {[i \in {1, 2, 3} |-> [j \in {1, 2, 3} |->
            CompareVariants([identifier |-> operands[i]],
                            [identifier |-> operands[j]])]]}
    /\ UNCHANGED << orchestrator_vars, variant_vars, definition_vars, operands >>

NextCompare == CompareCall

SpecCompare == InitCompare /\ [][NextCompare]_vars

(***************************************************************************)
(* Properties of install() and copy_to_destination(), checked under Spec.  *)
(***************************************************************************)
\* The run is over: install() returned or raised.
Ended == pc \in {"done", "raised"}

\* The target of the package holds what this run copied.
CopiedIn(tree, identifier) == tree[identifier] = [exists |-> TRUE, content |-> {identifier}]
Copied(identifier) == CopiedIn(destination, identifier)

\* Steps that called copy_to_destination.
CopyKinds == {"copy_skipped", "copied", "export_error"}

\* C1: in any run of install(), copy_to_destination is invoked at most once
\* for every resolved package identifier, also when several distinct request
\* strings resolve to that identifier.
C1_CopyAtMostOnce == \A i \in Identifiers : copy_calls[i] <= 1

\* A second request string resolved to a package that was copied before, and
\* was dropped without a second copy.
C1_Witness ==
    /\ event.kind = "skip_package"
    /\ event.request \notin installed_requests
    /\ copy_calls[event.identifier] = 1

\* C2, as stated: the installer is invoked at most once for each distinct
\* request string, whatever the outcome of its earlier attempt was.
C2_InstallAtMostOnce == \A r \in RequestStrings : install_calls[r] <= 1

\* C2, amended: once a request string is recorded (its attempt installed a
\* package not seen before), the installer is never invoked for it again; and
\* a string is recorded only by such an attempt.
C2_RecordedNeverReinstalled ==
    [][(\A r \in RequestStrings :
        /\ r \in installed_requests => install_calls'[r] = install_calls[r]
        /\ r \in installed_requests' \ installed_requests =>
              /\ event'.kind \in CopyKinds
              /\ event'.request = r)]_vars

\* A recorded request string came up again and was dropped without a call.
C2_Witness ==
    /\ event.kind = "skip_request"
    /\ event.request \in installed_requests
    /\ install_calls[event.request] = 1

\* C3: a RuntimeError of the installer (install error or lookup error) does
\* not leave install(): the request is abandoned, the rest of the queue and
\* everything else is as it was and the loop goes on; when install() returns,
\* every request of the caller was attempted and every package installed was
\* handed to copy_to_destination, and is in the destination.
C3_PartialFailure ==
    /\ [][((event'.kind = "install_error" /\ event'.error = "RuntimeError") =>
            /\ pc' = "loop"
            /\ exception' = None
            /\ scratch' = "created"
            /\ queue' = Tail(queue)
            /\ UNCHANGED << installed_packages, installed_requests, overwrite,
                            editable_mode, destination, copy_calls >>)]_vars
    /\ [](pc = "done" =>
            /\ \A i \in 1..Len(args.requests) : install_calls[args.requests[i]] >= 1
            /\ \A i \in installed_packages :
                /\ copy_calls[i] = 1
                /\ destination[i].exists
                /\ i \notin args.existing => Copied(i))

\* A request failed and a later one was copied.
C3_Witness ==
    /\ pc = "loop"
    /\ event.kind = "copied"
    /\ \E r \in RequestStrings :
        /\ install_calls[r] >= 1
        /\ Resolve(r) \notin installed_packages

\* C4: the installer's "Package name could not be extracted" error is a
\* non-fatal install failure: the request is abandoned and the loop goes on.
C4_UnparseableIsNonFatal ==
    (event.kind = "install_error" /\ event.error = "ValueError") =>
        (pc = "loop" /\ exception = None)

\* C5: whatever the installer failures it catches and the copies skipped, the
\* work loop ends with an empty queue and install() returns; in the cycle
\* foo -> bar -> foo, foo and bar are each copied once.
C5_TerminatesAndCopiesCycle ==
    (Ended /\ exception \notin {"RuntimeError", "ValueError", "KeyError",
                                 "OSError"}) =>
        /\ pc = "done"
        /\ queue = << >>
        /\ (~args.no_dependencies /\ Copied("Foo-1")) =>
              (Copied("Bar-1") /\ copy_calls["Bar-1"] = 1 /\ copy_calls["Foo-1"] = 1)

\* C6: with editable_mode requested, no request that entered the queue as a
\* discovered dependency is passed to the installer or to the export with
\* editable_mode true: the flag is off whenever a dependency is queued, and
\* no step that dequeued a dependency ran in editable mode.
C6_DependenciesNeverEditable ==
    /\ (\E i \in 1..Len(queue) : queue[i].type = "dict") => ~editable_mode
    /\ event.dependency => ~event.editable

\* An editable run has queued a dependency.
C6_Witness ==
    /\ args.editable_mode
    /\ event.kind = "copied"
    /\ event.editable
    /\ \E i \in 1..Len(queue) : queue[i].type = "dict"

\* C7: once the overwrite policy is a boolean it keeps its value, the
\* operator is not prompted again, and every later conflict is decided by
\* it: overwrite if true, skip if false.
C7_PolicyPinned ==
    [][(overwrite \in {True, False} =>
        /\ overwrite' = overwrite
        /\ prompts' = prompts
        /\ event'.kind \in CopyKinds /\ event'.conflict =>
              /\ ~event'.prompted
              /\ overwrite = True =>
                    /\ event'.kind # "copy_skipped"
                    /\ CopiedIn(destination', event'.identifier)
              /\ overwrite = False =>
                    /\ event'.kind = "copy_skipped"
                    /\ destination' = destination)]_vars

\* An answer for all pinned the policy, and a later conflict was decided
\* without a prompt.
C7_Witness ==
    /\ args.overwrite = None
    /\ Len(prompts) = 1
    /\ event.kind \in CopyKinds
    /\ event.conflict
    /\ ~event.prompted

\* C8: with the policy unset, a yes-once or no-once answer decides the
\* current conflict only (overwrite, skip) and leaves the policy unset, and a
\* conflict met with the policy unset prompts the operator.
C8_OnceAnswersLeavePolicyUnset ==
    /\ [][((event'.prompted /\ event'.answer \in {"y", "n"}) =>
            /\ overwrite' = None
            /\ event'.answer = "y" =>
                  (event'.kind # "copy_skipped" /\ CopiedIn(destination', event'.identifier))
            /\ event'.answer = "n" =>
                  (event'.kind = "copy_skipped" /\ destination' = destination))]_vars
    /\ [][((overwrite = None /\ event'.kind \in CopyKinds /\ event'.conflict) =>
            (event'.prompted /\ prompts' = Append(prompts, event'.answer)))]_vars

\* The operator answered once, and the next conflict prompted again.
C8_Witness ==
    /\ Len(prompts) = 2
    /\ prompts[1] \in {"y", "n"}
    /\ event.prompted

\* C9: an existing target directory is changed only by a conflict decided as
\* overwrite; a skipped copy leaves the destination tree as it was and
\* reports no copy; with an initial policy of false no target that existed
\* before the run is altered.
C9_ExistingTargetsGuarded ==
    /\ [][(\A t \in Identifiers :
            (destination[t].exists /\ destination'[t] # destination[t]) =>
                /\ event'.kind \in {"copied", "export_error"}
                /\ event'.identifier = t
                /\ event'.conflict
                /\ \/ overwrite = True
                   \/ overwrite = None /\ event'.answer \in {"y", "ya"})]_vars
    /\ [][(event'.kind = "copy_skipped" =>
            (destination' = destination /\ event'.conflict))]_vars
    /\ [](args.overwrite = False =>
            \A t \in args.existing : destination[t] = Old)

\* With an initial policy of false, a package whose target existed was
\* installed and its copy skipped.
C9_Witness ==
    /\ args.overwrite = False
    /\ event.kind = "copy_skipped"
    /\ event.identifier \in args.existing

\* The caller passed one request, and its package brings no requirement
\* into the queue.
SingleRequest ==
    /\ Len(args.requests) = 1
    /\ \/ args.no_dependencies
       \/ Dependencies(Resolve(args.requests[1])) = << >>

\* C20: for a package the loop processes, export() is called if and only if
\* definitions are enabled and the package was copied to the destination,
\* and, the run going on, its requirements are queued if and only if
\* dependencies are enabled and the package was copied; a package whose copy
\* was skipped gets no export and none of its requirements queued. A single
\* request with no dependencies takes one loop iteration, with one export
\* when it is copied and definitions are enabled.
C20_ExportAndQueueFollowCopy ==
    /\ [][(event'.kind \in CopyKinds =>
            LET copied == CopiedIn(destination', event'.identifier)
                requirements ==
                    FetchMappingFromEnviron(event'.identifier).requirements
            IN  /\ event'.exported <=> (args.definition_path # None /\ copied)
                /\ event'.kind = "copy_skipped" <=> ~copied
                /\ pc' = "loop" =>
                      queue' = IF copied /\ ~args.no_dependencies
                               THEN Tail(queue) \o requirements
                               ELSE Tail(queue))]_vars
    /\ [](SingleRequest =>
            /\ event.kind = "copied" =>
                  /\ queue = << >>
                  /\ event.exported <=> args.definition_path # None
            /\ pc = "done" =>
                  /\ install_calls[args.requests[1]] = 1
                  /\ \A r \in RequestStrings \ {args.requests[1]} :
                        install_calls[r] = 0
                  /\ copy_calls[Resolve(args.requests[1])] <= 1)

\* With definitions and dependencies enabled a package was copied, its
\* definition exported and its requirement queued.
C20_Witness ==
    /\ event.kind = "copied"
    /\ event.exported
    /\ ~args.no_dependencies
    /\ queue # << >>
    /\ queue[Len(queue)].type = "dict"
    /\ queue[Len(queue)].identifier = Dependencies(event.identifier)[1].identifier

\* The requests of the queue that the caller passed, that were discovered.
Callers(q) == {i \in 1..Len(q) : q[i].type = "str"}
Discovered(q) == {i \in 1..Len(q) : q[i].type = "dict"}

\* C21: the queue is first in, first out, and discovered requirements are
\* put at its end: every step of the loop takes the head and leaves the
\* rest in its order, what it adds is the requirements of the package it
\* copied, behind all that was queued; so every request of the caller is
\* dequeued before any discovered dependency, and dependencies leave in the
\* order of their discovery.
C21_FirstInFirstOut ==
    /\ [][(pc = "loop" /\ queue # << >> =>
            /\ SubSeq(queue', 1, Len(queue) - 1) = Tail(queue)
            /\ \A i \in Len(queue)..Len(queue') :
                  /\ queue'[i].type = "dict"
                  /\ event'.kind = "copied"
                  /\ queue'[i] \in
                        {DictRequest(Dependencies(event'.identifier)[k]) :
                            k \in 1..Len(Dependencies(event'.identifier))})]_vars
    /\ [](\A i \in Callers(queue), j \in Discovered(queue) : i < j)
    /\ [](event.dependency => Callers(queue) = {})

\* A dependency was queued behind a request of the caller that still waits.
C21_Witness ==
    /\ event.kind = "copied"
    /\ Len(queue) = 2
    /\ queue[1].type = "str"
    /\ queue[2] = DictRequest(Dependencies(event.identifier)[1])

InstallerCalled == install_calls' # install_calls

\* C28: every call of the installer comes right after the build directory
\* was cleared: after the call the directory holds what this call built and
\* nothing else, so what is copied to the destination for a package never
\* holds files an earlier request of the run left, a failed or a
\* deduplicated one included.
C28_BuildDirectoryCleared ==
    /\ [][(InstallerCalled =>
            /\ event'.cleared
            /\ package_path' \in {{"partial"}, {Resolve(event'.request)}})]_vars
    /\ [](\A t \in Identifiers :
            destination[t].exists => destination[t].content \in {{"old"}, {t}})

\* A package was copied after an earlier request of the run had left files
\* in the build directory without being recorded.
C28_Witness ==
    /\ event.kind = "copied"
    /\ Copied(event.identifier)
    /\ package_path = {event.identifier}
    /\ \E r \in RequestStrings \ installed_requests : install_calls[r] >= 1

\* C29: every element queued from the requirements of a package mapping is
\* a request string, the kind of value the caller passes, so that it can be
\* tested against the recorded requests and passed to the installer
\* without error.
C29_QueuedAreStrings ==
    /\ \A i \in 1..Len(queue) : queue[i].type = "str"
    /\ exception # "TypeError"

\* C30: the operator is prompted at most once for a package identifier: the
\* identifier is recorded before the copy is decided, so a package whose
\* copy was skipped is not prompted for, copied or exported again in the
\* run, also when another request string reaches it.
C30_PromptedOncePerPackage ==
    /\ [][(event'.kind \in CopyKinds =>
            /\ event'.identifier \notin installed_packages
            /\ event'.identifier \in installed_packages')]_vars
    /\ [][(\A i \in installed_packages :
            /\ i \in installed_packages'
            /\ copy_calls'[i] = copy_calls[i]
            /\ destination'[i] = destination[i]
            /\ (event'.prompted \/ event'.exported) => event'.identifier # i)]_vars
    /\ [][(prompts' # prompts =>
            /\ Len(prompts') = Len(prompts) + 1
            /\ event'.kind \in CopyKinds
            /\ event'.prompted)]_vars

\* The operator declined a package, and another request string that reaches
\* the same package was dropped without a prompt, a copy or an export.
C30_Witness ==
    /\ event.kind = "skip_package"
    /\ prompts = << "n" >>
    /\ copy_calls[event.identifier] = 1
    /\ destination[event.identifier] = Old
    /\ ~event.exported

\* Some package of the run was copied to the destination.
SomeCopied == \E i \in installed_packages : Copied(i)

\* C31: in a run with editable mode asked for, every call of the installer
\* up to and including the one for the first request that is copied is in
\* editable mode, and every call after that copy, for requests of the
\* caller and for dependencies, is not; a failed, a deduplicated or a
\* skipped request leaves the flag as it is.
C31_EditableUntilFirstCopy ==
    /\ [][(InstallerCalled =>
            event'.editable = (args.editable_mode /\ ~SomeCopied))]_vars
    /\ [][(editable_mode' # editable_mode =>
            (event'.kind = "copied" /\ ~editable_mode'))]_vars
    /\ [](pc = "loop" => editable_mode = (args.editable_mode /\ ~SomeCopied))

\* In an editable run a request of the caller was installed without the
\* editable flag, after an earlier one was copied with it.
C31_Witness ==
    /\ args.editable_mode
    /\ event.kind \in CopyKinds \cup {"install_error", "skip_package"}
    /\ ~event.dependency
    /\ ~event.editable
    /\ \E i \in installed_packages \ {event.identifier} : Copied(i)

(***************************************************************************)
(* Properties of the variant reconciler, checked under SpecVariants.       *)
(***************************************************************************)
\* The calls so far had pairwise distinct Python identifiers.
DistinctCalls == \A i, j \in 1..Len(calls) : calls[i] = calls[j] => i = j

\* C10: starting from an empty variant list, after every call of a sequence
\* of _update_variants calls with pairwise distinct Python identifiers, each
\* variant compares strictly before its successor under _compare_variants.
C10_StrictlySorted ==
    DistinctCalls =>
        \A i \in 1..(Len(variants) - 1) :
            CompareVariants(variants[i], variants[i + 1]) < 0

(***************************************************************************)
(* Properties of the variant reconciler on stored lists, checked under     *)
(* SpecReconcile.                                                          *)
(***************************************************************************)
\* No two variants of the list have the same identifier.
Unique(list) ==
    \A i, j \in 1..Len(list) : list[i].identifier = list[j].identifier => i = j

\* The step is a call of _update_variants.
Called == calls' # calls

\* The identifier of the record the step is called with.
CalledIdentifier == calls'[Len(calls')]

\* The places of the list that hold the identifier.
Holding(list, identifier) == {i \in 1..Len(list) : list[i].identifier = identifier}

\* C12: a variant list without two entries of one identifier has none after
\* any sequence of _update_variants calls, for new and for present Python
\* identifiers, and a call for a present identifier leaves the length of the
\* list as it was.
C12_IdentifiersStayUnique ==
    /\ [](Unique(seed) => Unique(variants))
    /\ [][((Called /\ Holding(variants, CalledIdentifier) # {}) =>
            Len(variants') = Len(variants))]_vars

\* A stored list of two variants took a call for a new identifier and a call
\* for an identifier it held.
C12_Witness ==
    /\ Unique(seed)
    /\ Len(seed) = 2
    /\ Len(calls) = 2
    /\ Len(variants) = 3

\* No two entries of the requirement list are equal once spaces are removed.
NoDuplicates(requirements) ==
    \A i, j \in 1..Len(requirements) :
        NoSpaces(requirements[i]) = NoSpaces(requirements[j]) => i = j

\* The requirement list of the variant of the list that _update_variants
\* takes for the identifier, the empty list if there is no such variant.
RequirementsOf(list, identifier) ==
    LET holding == Holding(list, identifier)
    IN  IF holding = {} THEN << >>
        ELSE list[CHOOSE i \in holding : \A j \in holding : i <= j].requirements

\* The install location of that variant.
LocationOf(list, identifier) ==
    LET holding == Holding(list, identifier)
    IN  list[CHOOSE i \in holding : \A j \in holding : i <= j].install_location

\* The record and the path the step calls _update_variants with.
CalledWith == CHOOSE call \in last' : TRUE

\* The step calls _update_variants with the record and the path of the call
\* before it.
SecondCall == Called /\ last # {} /\ last' = last

\* C13: reconciling the same record with the same install path twice gives
\* the list that reconciling it once gives: the second call adds no
\* requirement and no variant, and the requirement list of the variant has
\* no duplicated entries.
C13_TwiceIsOnce ==
    [][(SecondCall =>
        /\ variants' = variants
        /\ NoDuplicates(RequirementsOf(variants', CalledIdentifier)))]_vars

\* C14: after any _update_variants call, for any record, a record whose
\* requirement list repeats a request included, the requirement list of the
\* variant created or updated has no two entries equal after the removal of
\* spaces, if the variant had none before the call.
C14_NoDuplicateRequirements ==
    [][((Called /\ NoDuplicates(RequirementsOf(variants, CalledIdentifier))) =>
        NoDuplicates(RequirementsOf(variants', CalledIdentifier)))]_vars

(***************************************************************************)
(* Properties of the comparator, checked under SpecCompare.                *)
(***************************************************************************)
\* What _compare_variants returned for the operands i and j.
Compare(i, j) == (CHOOSE c \in compared : TRUE)[i][j]

\* The identifier parses as a number.
Numeric(identifier) == IsDecimal(identifier) \/ IsNan(identifier)

\* C15: _compare_variants orders every identifier that parses as a number
\* before every identifier that does not, whatever their lexical values: -1
\* when only the first is numeric, 1 when only the second is; and when
\* neither parses as a number it orders them by plain string comparison.
C15_NumericBeforeLabels ==
    compared # {} =>
        \A i, j \in {1, 2, 3} :
            LET a == operands[i]
                b == operands[j]
            IN  /\ (Numeric(a) /\ ~Numeric(b)) => Compare(i, j) = -1
                /\ (~Numeric(a) /\ Numeric(b)) => Compare(i, j) = 1
                /\ (~Numeric(a) /\ ~Numeric(b)) =>
                      /\ Compare(i, j) = 0 <=> a = b
                      /\ Compare(i, j) = -1 <=> StrLess(a, b)

\* A version of three parts, which is no number and lexically before "3.9",
\* was compared with "3.9", and two labels with each other.
C15_Witness ==
    /\ compared # {}
    /\ operands[1] = << "2", ".", "7", ".", "1" >>
    /\ operands[2] = << "3", ".", "9" >>
    /\ operands[3] = << "d", "e", "v" >>
    /\ StrLess(operands[1], operands[2])
    /\ Compare(2, 1) = -1

\* The identifier is major.minor: digits, one point, digits.
MajorMinor(identifier) ==
    /\ IsDecimal(identifier)
    /\ \E i \in 2..(Len(identifier) - 1) : identifier[i] = "."

\* The numbers before and after the point.
Major(identifier) ==
    Number(SubSeq(identifier, 1,
                  (CHOOSE i \in 1..Len(identifier) : identifier[i] = ".") - 1))
Minor(identifier) ==
    Number(SubSeq(identifier,
                  (CHOOSE i \in 1..Len(identifier) : identifier[i] = ".") + 1,
                  Len(identifier)))

\* The first is the higher Python version.
Higher(a, b) ==
    \/ Major(a) > Major(b)
    \/ Major(a) = Major(b) /\ Minor(a) > Minor(b)

\* C16: of two numeric identifiers major.minor, minors of more than one
\* digit included, _compare_variants orders the higher Python version first.
C16_HigherVersionFirst ==
    compared # {} =>
        \A i, j \in {1, 2, 3} :
            (MajorMinor(operands[i]) /\ MajorMinor(operands[j])
                /\ Higher(operands[i], operands[j])) => Compare(i, j) = -1

\* C17: _compare_variants is a total order on identifier strings:
\* compare(a, b) = -compare(b, a); compare(a, b) <= 0 and compare(b, c) <= 0
\* imply compare(a, c) <= 0; compare(a, b) = 0 only for a and b the same
\* string.
C17_TotalOrder ==
    compared # {} =>
        \A i, j, k \in {1, 2, 3} :
            /\ Compare(i, j) = -Compare(j, i)
            /\ (Compare(i, j) <= 0 /\ Compare(j, k) <= 0) => Compare(i, k) <= 0
            /\ Compare(i, j) = 0 => operands[i] = operands[j]

(***************************************************************************)
(* Properties of create() and update(), checked under SpecDefinition.      *)
(***************************************************************************)
\* The Definition the call returned, and the one update() was given.
Returned == CHOOSE definition \in result : TRUE
Given == CHOOSE definition \in input.definition : TRUE

\* The call was create(), update().
Created == result # {} /\ input.definition = {}
Updated == result # {} /\ input.definition # {}

\* No variant of the list compares after its successor.
Sorted(list) ==
    \A i \in 1..(Len(list) - 1) : CompareVariants(list[i], list[i + 1]) <= 0

\* C11: the variant list of the Definition create() or update() returns is
\* sorted by the comparator, highest first, for every definition given,
\* whatever the order of its stored variants, and for additional_variants
\* absent or present.
C11_ReturnedVariantsSorted == result # {} => Sorted(Returned.variants)

\* The field holds a value that is not empty.
Filled(field, empty) == field # {} /\ field # {empty}

\* C18: update() changes no description, version, namespace or system of
\* the definition that is not empty; each is written only when it is empty
\* or unset, the namespace with the default constant, the others with the
\* value of the record, for any record.
C18_FilledFieldsKept ==
    Updated =>
        /\ Returned.description =
              IF Filled(Given.description, "") THEN Given.description
              ELSE {input.mapping.description}
        /\ Returned.version =
              IF Filled(Given.version, "") THEN Given.version
              ELSE {input.mapping.version}
        /\ Returned.namespace =
              IF Filled(Given.namespace, << >>) THEN Given.namespace
              ELSE {NAMESPACE}
        /\ Returned.system =
              IF Given.system # {} THEN Given.system
              ELSE {ProcessSystemMapping(system) : system \in input.mapping.system}

\* update() was given a definition with a description and a system and
\* with an empty version, and a record with a system of its own.
C18_Witness ==
    /\ Updated
    /\ Given.description = {"A package."}
    /\ Given.version = {""}
    /\ Given.namespace = {}
    /\ Given.system # {}
    /\ input.mapping.system # {}
    /\ Returned.version = {"1.2"}

\* C19: the Definition create() or update() returns has install_root equal
\* to the output root when editable mode is off and has no install_root
\* when it is on, also when update() is given a definition that carries an
\* install_root; in editable mode the install location of the variant is
\* the source location of the record.
C19_InstallRootFollowsEditable ==
    result # {} =>
        /\ ~input.editable_mode => Returned.install_root = {input.output_path}
        /\ input.editable_mode =>
              /\ Returned.install_root = {}
              /\ LocationOf(Returned.variants,
                            input.mapping.python.identifier)
                    = input.mapping.location

\* C24: when _update_variants finds a variant with the Python identifier
\* of the record, the variant keeps its place in the list, its install
\* location becomes the new path, its requirement entries are kept in
\* their order with new ones behind them, and every other variant of the
\* list is left as it was.
C24_FoundVariantUpdatedInPlace ==
    [][((Called /\ Holding(variants, CalledIdentifier) # {}) =>
        LET holding == Holding(variants, CalledIdentifier)
            index == CHOOSE i \in holding : \A j \in holding : i <= j
            before == variants[index].requirements
        IN  /\ Len(variants') = Len(variants)
            /\ \A i \in 1..Len(variants) :
                  i # index => variants'[i] = variants[i]
            /\ variants'[index].identifier = CalledIdentifier
            /\ variants'[index].install_location = CalledWith.path
            /\ Len(variants'[index].requirements) >= Len(before)
            /\ SubSeq(variants'[index].requirements, 1, Len(before)) = before)]_vars

\* The second variant of a stored list was found; it took a new path and a
\* new requirement behind those it had.
C24_Witness ==
    /\ Len(seed) = 2
    /\ Len(calls) = 1
    /\ calls[1] = seed[2].identifier
    /\ calls[1] # seed[1].identifier
    /\ variants[2].install_location # seed[2].install_location
    /\ Len(variants[2].requirements) > Len(seed[2].requirements)

\* C25, as stated: after _update_variants the first entry of the
\* requirement list of the variant for the Python identifier of the record
\* is the Python request of the record, for a variant newly created and for
\* a variant updated, whatever its requirement list was.
C25_PythonRequestFirst ==
    [][(Called =>
        RequirementsOf(variants', CalledIdentifier)[1]
            = CalledWith.mapping.python.request)]_vars

\* C25, amended: the Python request of the record is the first entry when
\* the variant is newly created or had no requirement; a variant that had
\* requirements keeps its first entry, and holds the Python request, spaces
\* apart, somewhere in its list.
C25_PythonRequestFirstOrKept ==
    [][(Called =>
        LET before == RequirementsOf(variants, CalledIdentifier)
            after == RequirementsOf(variants', CalledIdentifier)
            request == CalledWith.mapping.python.request
        IN  /\ after # << >>
            /\ before = << >> => after[1] = request
            /\ before # << >> =>
                  /\ after[1] = before[1]
                  /\ \E i \in 1..Len(after) :
                        NoSpaces(after[i]) = NoSpaces(request))]_vars

\* A stored variant whose list began with another requirement was updated:
\* the Python request stands behind it.
C25_Witness ==
    /\ Len(calls) = 1
    /\ Holding(seed, calls[1]) # {}
    /\ RequirementsOf(seed, calls[1]) # << >>
    /\ RequirementsOf(variants, calls[1])[1] # PythonRequest(calls[1])
    /\ RequirementsOf(variants, calls[1])[2] = PythonRequest(calls[1])

\* The os constraint admits the major version.
Admits(os, version) == os.min_version <= version /\ version < os.max_version

\* The system create() or update() writes from the record.
SystemWritten ==
    /\ result # {}
    /\ input.mapping.system # {}
    /\ Created \/ Given.system = {}

\* C23: for a package with a system of OS name n and integer major version
\* m, the system of the definition keeps platform and arch, and its os
\* constraint is "n >= m, < m + 1": it admits the major version m and no
\* other.
C23_SystemAdmitsMajorVersion ==
    SystemWritten =>
        \A system \in input.mapping.system :
            /\ Cardinality(Returned.system) = 1
            /\ \A written \in Returned.system :
                  /\ written.platform = system.platform
                  /\ written.arch = system.arch
                  /\ written.os.name = system.os.name
                  /\ written.os.min_version = system.os.major_version
                  /\ written.os.max_version = system.os.major_version + 1
                  /\ \A version \in 0..(system.os.major_version + 3) :
                        Admits(written.os, version)
                            <=> version = system.os.major_version

\* update() wrote the system of a record for el 7 into a definition that
\* had none.
C23_Witness ==
    /\ Updated
    /\ Given.system = {}
    /\ input.mapping.system = {Linux}
    /\ \E written \in Returned.system :
          Admits(written.os, 7) /\ ~Admits(written.os, 8)

\* The identifiers of the list.
IdentifiersOf(list) == {list[i].identifier : i \in 1..Len(list)}

\* The additional variants update() was given.
Additional == CHOOSE list \in input.additional_variants : TRUE

\* C26: update() does not deduplicate identifiers across the variants of
\* the definition and the additional variants: for an identifier both hold,
\* the list returned holds two variants of it; and when it is the Python
\* identifier of the record, the first of the two takes the new install
\* location and the requirements and the second is left as it was given.
C26_DuplicatesAcrossSourcesKept ==
    (Updated /\ input.additional_variants # {}) =>
        \A identifier \in IdentifiersOf(Given.variants)
                            \cap IdentifiersOf(Additional) :
            LET holding == Holding(Returned.variants, identifier)
                first == CHOOSE i \in holding : \A j \in holding : i <= j
                second == CHOOSE i \in holding : \A j \in holding : j <= i
                mapping == input.mapping
            IN  /\ Cardinality(holding) = 2
                /\ identifier = mapping.python.identifier =>
                      /\ Returned.variants[first].install_location
                            = LocationPath(mapping, input.editable_mode)
                      /\ \A req \in {ProcessRequirements(
                                        mapping, mapping.python.request)[k] :
                                     k \in 1..(1 + Len(mapping.requirements))} :
                            \E k \in 1..Len(Returned.variants[first].requirements) :
                                Returned.variants[first].requirements[k] = req
                      /\ \E k \in Holding(Additional, identifier) :
                            Returned.variants[second] = Additional[k]

\* The definition and the additional variants both held "2.7", the record
\* was for "2.7" with a requirement, in editable mode: of the two variants
\* returned the first has the source location and the requirement.
C26_Witness ==
    /\ Updated
    /\ input.additional_variants # {}
    /\ input.editable_mode
    /\ input.mapping.python.identifier = << "2", ".", "7" >>
    /\ input.mapping.requirements # << >>
    /\ Cardinality(Holding(Returned.variants, << "2", ".", "7" >>)) = 2
    /\ Returned.variants[2].install_location = input.mapping.location
    /\ Returned.variants[3].install_location = Exported
    /\ Len(Returned.variants[2].requirements) = 2
    /\ Len(Returned.variants[3].requirements) = 1

\* C27: update() keeps the library path the definition had: the PYTHONPATH
\* returned is the install-location placeholder followed by the whole
\* PYTHONPATH of the definition given, no entry dropped, and the
\* placeholder followed by the ${PYTHONPATH} reference when it had none.
C27_PythonPathKept ==
    Updated =>
        Returned.python_path =
            << "${INSTALL_LOCATION}" >> \o
                (IF Given.python_path = << >> THEN << "${PYTHONPATH}" >>
                 ELSE Given.python_path)

\* update() was given a definition whose PYTHONPATH had three entries.
C27_Witness ==
    /\ Updated
    /\ Len(Given.python_path) = 3
    /\ Len(Returned.python_path) = 4
    /\ Returned.python_path[3] = "/extra"

====
